---- MODULE Spec2Model ----
(***************************************************************************)
(* Precise code navigation: the location-gathering request of the codenav *)
(* service (gatherLocations and its four entry points), the cursor value   *)
(* threaded through a sequence of pages, and the qualifiedMonikerSet.      *)
(*                                                                         *)
(* One page request is one action: the whole of gatherLocations, with the  *)
(* sub-lookups it issues recorded, in order, in the page's call log.       *)
(***************************************************************************)
EXTENDS Integers, Sequences, FiniteSets, TLC

VARIABLES
    nVisible,        \* corpus: number of uploads visible from the request position
    localCount,      \* corpus: localCount[u] = locations upload u holds for the position
    symCase,         \* corpus: which symbol names the visible uploads report
    args,            \* RequestArgs of the request sequence: [kind, Limit]
    heldCursor,      \* the cursor the caller holds (last known-good)
    page,            \* number of pages requested so far
    last,            \* outcome of the last page
    seen,            \* locations returned by the pages before the last one
    recorded,        \* (uploadID, path) pairs the local phases have put in skipPaths
    monikers,        \* qualifiedMonikerSet.monikers
    monikerHashMap,  \* qualifiedMonikerSet.monikerHashMap
    lastAdd,         \* arguments of the qualifiedMonikerSet.add calls so far
    cur,             \* the Cursor value of the request in progress
    codec,           \* the serialized cursor the client holds, and the last decoding
    lastBump,        \* the last Bump call on the cursor: arguments, receiver, before
    uploadCache,     \* process-wide: ids of the hydrated upload records
    inflight,        \* process-wide: ids whose record is being fetched
    fetches,         \* fetches[id] = underlying fetches of upload id so far
    reqs             \* reqs[r] = what in-flight request r is doing about hydration

vars == <<nVisible, localCount, symCase, args, heldCursor, page, last, seen, recorded,
          monikers, monikerHashMap, lastAdd, cur, codec, lastBump, uploadCache, inflight, fetches,
          reqs>>

corpusVars == <<nVisible, localCount, symCase>>
chainVars == <<args, heldCursor, page, last, seen, recorded>>
setVars == <<monikers, monikerHashMap, lastAdd>>
cursorVars == <<cur, codec, lastBump>>
hydrationVars == <<uploadCache, inflight, fetches, reqs>>

----------------------------------------------------------------------------
(* Bounds *)

MaxVisible == 2
MaxLocal == 3
MaxPages == 2
MaxAdds == 3
MaxUploadOffset == 2
MaxTotal == 2
MaxRequests == 3
MaxFetches == 2

(* Page limits a caller asks for. *)
Limits == {2, 10}

----------------------------------------------------------------------------
(* Generic helpers *)

Range(s) == {s[i] : i \in 1..Len(s)}

Min(a, b) == IF a < b THEN a ELSE b

Take(s, n) == SubSeq(s, 1, Min(n, Len(s)))

RECURSIVE Flatten(_)
Flatten(ss) == IF ss = <<>> THEN <<>> ELSE Head(ss) \o Flatten(Tail(ss))

----------------------------------------------------------------------------
(* Symbol names.  A symbol name is a string, modelled as the sequence of  *)
(* its characters so that prefix tests, sorting and parsing are computed. *)

(* The characters that occur, in ascending byte order. *)
CharOrder == <<" ", ".", "1", "A", "B", "b", "f", "i", "l", "m", "p", "q", "s">>

CharRank(c) == CHOOSE i \in 1..Len(CharOrder) : CharOrder[i] = c

SymA == <<"s", " ", "m", " ", "p", " ", "1", " ", "A">>
SymB == <<"s", " ", "m", " ", "q", " ", "1", " ", "B">>
SymLsif == <<"l", "s", "i", "f", " ", ".", " ", "p", " ", "1", " ", "f">>
SymBad == <<"b">>

skipPrefix == <<"l", "s", "i", "f", " ", ".">>

HasPrefix(s, prefix) ==
    /\ Len(s) >= Len(prefix)
    /\ SubSeq(s, 1, Len(prefix)) = prefix

(* Bytewise lexicographic order of strings, as sort.Strings uses. *)
RECURSIVE StringLess(_, _)
StringLess(a, b) ==
    IF a = <<>> THEN b # <<>>
    ELSE IF b = <<>> THEN FALSE
    ELSE IF Head(a) = Head(b) THEN StringLess(Tail(a), Tail(b))
    ELSE CharRank(Head(a)) < CharRank(Head(b))

(* The orders in which a range statement may visit the keys of a map. *)
IterationOrders == {"forward", "backward"}

RECURSIVE Enumerate(_)
Enumerate(S) ==
    IF S = {} THEN <<>>
    ELSE LET first == CHOOSE x \in S : \A y \in S \ {x} : StringLess(x, y)
         IN <<first>> \o Enumerate(S \ {first})

Reverse(s) == [i \in 1..Len(s) |-> s[Len(s) + 1 - i]]

(* The keys of the map allSymbols, appended to symbolNames in the order   *)
(* the range statement visits them.                                        *)
MapKeys(allSymbols, order) ==
    IF order = "forward" THEN Enumerate(allSymbols) ELSE Reverse(Enumerate(allSymbols))

RemoveAt(s, i) == SubSeq(s, 1, i - 1) \o SubSeq(s, i + 1, Len(s))

(* Variant: the names come out greatest first. *)
RECURSIVE SortStringsDescending(_)
SortStringsDescending(symbolNames) ==
    IF symbolNames = <<>> THEN <<>>
    ELSE LET greatest == CHOOSE i \in 1..Len(symbolNames) :
                            \A j \in 1..Len(symbolNames) :
                                ~StringLess(symbolNames[i], symbolNames[j])
         IN <<symbolNames[greatest]>>
                \o SortStringsDescending(RemoveAt(symbolNames, greatest))

(* Variant: the names are left in the order the map gave them. *)
SortStringsOmitted(symbolNames) == symbolNames

(* sort.Strings: the names in ascending order. *)
RECURSIVE SortStrings(_)
SortStrings(symbolNames) ==
    IF symbolNames = <<>> THEN <<>>
    ELSE LET least == CHOOSE i \in 1..Len(symbolNames) :
                         \A j \in 1..Len(symbolNames) :
                             ~StringLess(symbolNames[j], symbolNames[i])
         IN <<symbolNames[least]>> \o SortStrings(RemoveAt(symbolNames, least))

(* The space-separated fields of a string. *)
RECURSIVE SplitFields(_, _)
SplitFields(s, field) ==
    IF s = <<>> THEN <<field>>
    ELSE IF Head(s) = " " THEN <<field>> \o SplitFields(Tail(s), <<>>)
    ELSE SplitFields(Tail(s), Append(field, Head(s)))

(* A "." placeholder field stands for the empty string. *)
FieldValue(f) == IF f = <<".">> THEN <<>> ELSE f

(* Variant: a name that does not follow the grammar parses to empty      *)
(* components instead of failing.                                         *)
ParseSymbolLenient(symbolName) ==
    [err |-> FALSE, Scheme |-> <<>>, Manager |-> <<>>, Name |-> <<>>, Version |-> <<>>]

(* scheme ' ' manager ' ' package-name ' ' version ' ' descriptor *)
ParseSymbol(symbolName) ==
    LET fields == SplitFields(symbolName, <<>>)
    IN IF Len(fields) < 5 \/ \E i \in 1..Len(fields) : fields[i] = <<>>
       THEN [err |-> TRUE, Scheme |-> <<>>, Manager |-> <<>>, Name |-> <<>>, Version |-> <<>>]
       ELSE [err |-> FALSE,
             Scheme |-> fields[1],
             Manager |-> FieldValue(fields[2]),
             Name |-> FieldValue(fields[3]),
             Version |-> FieldValue(fields[4])]

RECURSIVE symbolsToMonikers(_)
symbolsToMonikers(symbolNames) ==
    IF symbolNames = <<>> THEN [err |-> FALSE, monikers |-> <<>>]
    ELSE LET parsedSymbol == ParseSymbol(Head(symbolNames))
             rest == symbolsToMonikers(Tail(symbolNames))
         IN IF parsedSymbol.err \/ rest.err
            THEN [err |-> TRUE, monikers |-> <<>>]
            ELSE [err |-> FALSE,
                  monikers |-> <<[Scheme |-> parsedSymbol.Scheme,
                                  Identifier |-> Head(symbolNames),
                                  Manager |-> parsedSymbol.Manager,
                                  Name |-> parsedSymbol.Name,
                                  Version |-> parsedSymbol.Version]>> \o rest.monikers]

----------------------------------------------------------------------------
(* The corpus: uploads, the bundle store, the upload directory, the diff  *)
(* translator.  These are the collaborators gatherLocations consumes.     *)

TargetPath == "a.go"
OtherPath == "b.go"

(* Uploads 1..MaxVisible may cover the request position; the others are   *)
(* found only through their packages and references.                      *)
DeclaringUpload == MaxVisible + 1
ReferencingUpload == MaxVisible + 2
FarUpload == MaxVisible + 3
AllUploads == 1..FarUpload

maximumIndexesPerMonikerSearch == 2

Location(u, path, r) == [DumpID |-> u, Path |-> path, Range |-> r]

(* What the index of upload u holds for the request position, in the      *)
(* store's iteration order.                                                *)
LocalLocations(u) ==
    IF u \in DOMAIN localCount
    THEN [r \in 1..localCount[u] |-> Location(u, TargetPath, r)]
    ELSE <<>>

(* The symbol names upload u reports for the position. *)
UploadSymbols(u) ==
    CASE symCase = 1 -> <<>>
      [] symCase = 2 -> IF u % 2 = 1 THEN <<SymB, SymA, SymA, SymLsif>>
                                     ELSE <<SymLsif, SymA>>
      [] OTHER -> <<SymA, SymBad>>

(* PositionalLookup(uploadID, path, line, character, limit, offset)       *)
(*   -> (locations, totalCount, symbolNames)                              *)
ExtractLocationsFromPosition(bundleID, path, limit, offset) ==
    LET all == IF path = TargetPath THEN LocalLocations(bundleID) ELSE <<>>
    IN [locations |-> SubSeq(all, offset + 1, Min(offset + limit, Len(all))),
        totalCount |-> Len(all),
        symbols |-> IF path = TargetPath THEN UploadSymbols(bundleID) ELSE <<>>]

(* Resolution of the visible uploads: a list carried by the cursor is     *)
(* reused, otherwise the covering uploads are resolved afresh.            *)
CursorToVisibleUpload(u) == [DumpID |-> u, TargetPathWithoutRoot |-> TargetPath]

getVisibleUploadsFromCursor(cursorsToVisibleUploads) ==
    IF cursorsToVisibleUploads # <<>>
    THEN cursorsToVisibleUploads
    ELSE [i \in 1..nVisible |-> CursorToVisibleUpload(i)]

(* The moniker location table: every occurrence of SymA in every index.   *)
(* The occurrences in the target path of a visible upload are the ones    *)
(* its positional lookup returns.                                          *)
UploadOccurrences(u) ==
    [i \in 1..Len(LocalLocations(u)) |->
        [loc |-> LocalLocations(u)[i], symbol |-> SymA]]
    \o <<[loc |-> Location(u, OtherPath, 1), symbol |-> SymA]>>

MonikerTable == Flatten([u \in AllUploads |-> UploadOccurrences(u)])

RECURSIVE SelectOccurrences(_, _, _, _)
SelectOccurrences(rows, uploadIDs, skipPaths, identifiers) ==
    IF rows = <<>> THEN <<>>
    ELSE LET row == Head(rows)
             rest == SelectOccurrences(Tail(rows), uploadIDs, skipPaths, identifiers)
         IN IF /\ row.loc.DumpID \in Range(uploadIDs)
               /\ <<row.loc.DumpID, row.loc.Path>> \notin skipPaths
               /\ row.symbol \in identifiers
            THEN <<row.loc>> \o rest
            ELSE rest

(* BulkMonikerLookup(table, uploadIDs, skipPaths, monikers, limit, offset) *)
(*   -> locations                                                          *)
GetMinimalBulkMonikerLocations(tableName, uploadIDs, skipPaths, monikerArgs, limit, offset) ==
    LET all == SelectOccurrences(MonikerTable, uploadIDs, skipPaths,
                                 {m.Identifier : m \in Range(monikerArgs)})
    IN SubSeq(all, offset + 1, Min(offset + limit, Len(all)))

(* FindUploadsDeclaringPackage: package p is declared by upload 1 and by  *)
(* DeclaringUpload; package q by no upload.                                *)
PackageP == <<"p">>

getUploadsWithDefinitionsForMonikers(qualifiedMonikers) ==
    IF \E m \in Range(qualifiedMonikers) : m.Name = PackageP
    THEN <<1, DeclaringUpload>>
    ELSE <<>>

(* FindUploadsReferencingPackage(monikers, declaringIDs, repo, commit,    *)
(* limit, offset): the uploads that reference the monikers, the declaring *)
(* ones left out, at most limit of them from offset on.                   *)
RECURSIVE Without(_, _)
Without(ids, ignore) ==
    IF ids = <<>> THEN <<>>
    ELSE IF Head(ids) \in Range(ignore) THEN Without(Tail(ids), ignore)
    ELSE <<Head(ids)>> \o Without(Tail(ids), ignore)

GetUploadIDsWithReferences(qualifiedMonikers, ignoreIDs, limit, offset) ==
    LET all == IF \E m \in Range(qualifiedMonikers) : m.Name = PackageP
               THEN Without(<<MaxVisible, ReferencingUpload, FarUpload>>, ignoreIDs)
               ELSE <<>>
    IN [ids |-> SubSeq(all, offset + 1, Min(offset + limit, Len(all))),
        totalCount |-> Len(all)]

(* TranslateRange: the only range that no longer exists at the requested  *)
(* commit lies in b.go of DeclaringUpload.                                 *)
RangeExists(location) ==
    ~(location.DumpID = DeclaringUpload /\ location.Path = OtherPath)

getUploadLocation(location) ==
    IF RangeExists(location)
    THEN [DumpID |-> location.DumpID, Path |-> location.Path,
          TargetCommit |-> "requested", TargetRange |-> location.Range]
    ELSE [DumpID |-> location.DumpID, Path |-> location.Path,
          TargetCommit |-> "dump", TargetRange |-> location.Range]

(* LocationAdjuster: every location rewritten to the requested commit; a  *)
(* location whose range is gone is kept as a fallback or dropped.          *)
RECURSIVE getUploadLocations(_, _)
getUploadLocations(locations, includeFallbackLocations) ==
    IF locations = <<>> THEN <<>>
    ELSE LET rest == getUploadLocations(Tail(locations), includeFallbackLocations)
         IN IF ~includeFallbackLocations /\ ~RangeExists(Head(locations))
            THEN rest
            ELSE <<getUploadLocation(Head(locations))>> \o rest

----------------------------------------------------------------------------
(* Cursors *)

GenericCursor(phase, visibleUploads) ==
    [Phase |-> phase, CursorsToVisibleUploads |-> visibleUploads]

EmptyCursor == GenericCursor("", <<>>)

exhaustedCursor == GenericCursor("done", <<>>)

(* The order of the phases; the empty phase reads as local. *)
PhaseRank(phase) ==
    CASE phase = "done" -> 2
      [] phase = "remote" -> 1
      [] OTHER -> 0

----------------------------------------------------------------------------
(* The four queries and what each hands to gatherLocations. *)

Kinds == {"definitions", "references", "implementations", "prototypes"}

(* Variant: every query searches the table named after its kind. *)
TableNameIsKind(kind) == kind

TableName(kind) ==
    CASE kind = "references" -> "references"
      [] kind = "implementations" -> "implementations"
      [] OTHER -> "definitions"

(* Variant: no query stops after its first result. *)
StopAfterFirstResultOff(kind) == FALSE

StopAfterFirstResult(kind) == kind = "definitions"

(* Variant: only a references query is given the references factory. *)
UsesReferencesUploadFactoryReferencesOnly(kind) == kind = "references"

UsesReferencesUploadFactory(kind) == kind \in {"references", "implementations"}

----------------------------------------------------------------------------
(* The call log of a page: one entry per sub-lookup, in issue order.      *)

NoCall ==
    [op |-> "", upload |-> 0, found |-> 0, failed |-> FALSE, table |-> "",
     uploadIDs |-> <<>>, skipPaths |-> {}, monikers |-> <<>>, fallback |-> FALSE]

(* The sub-lookup about to be issued is the one that fails on this page. *)
Fails(calls, failAt) == failAt = Len(calls) + 1

PositionCall(uploadID, found, failed) ==
    [NoCall EXCEPT !.op = "position", !.upload = uploadID, !.found = found,
                   !.failed = failed]

AdjustCall(uploadID, includeFallbackLocations, failed) ==
    [NoCall EXCEPT !.op = "adjust", !.upload = uploadID,
                   !.fallback = includeFallbackLocations, !.failed = failed]

UploadsCall(op, qualifiedMonikers, uploadIDs, failed) ==
    [NoCall EXCEPT !.op = op, !.monikers = qualifiedMonikers,
                   !.uploadIDs = uploadIDs, !.failed = failed]

BulkCall(tableName, uploadIDs, skipPaths, monikerArgs, found, failed) ==
    [NoCall EXCEPT !.op = "bulk", !.table = tableName, !.uploadIDs = uploadIDs,
                   !.skipPaths = skipPaths, !.monikers = monikerArgs,
                   !.found = found, !.failed = failed]

Result(locations, nextCursor, err, calls, skipPaths) ==
    [locations |-> locations, cursor |-> nextCursor, err |-> err, calls |-> calls,
     skipPaths |-> skipPaths]

(* Variant: a failing page hands back what it had gathered. *)
FailurePartial(allLocations, calls, skipPaths) ==
    Result(allLocations, EmptyCursor, TRUE, calls, skipPaths)

(* A failed sub-lookup: the locations gathered so far are dropped, and   *)
(* the zero cursor is returned.                                           *)
Failure(allLocations, calls, skipPaths) ==
    Result(<<>>, EmptyCursor, TRUE, calls, skipPaths)

(* Variant: the path an upload was asked about is not recorded. *)
SetSkipPathDropped(skipPaths, uploadID, path) == skipPaths

(* skipPaths[uploadID] = path *)
SetSkipPath(skipPaths, uploadID, path) ==
    {e \in skipPaths : e[1] # uploadID} \cup {<<uploadID, path>>}

(* Variant: every symbol name enters allSymbols. *)
CollectSymbolsAll(allSymbols, uploadSymbols) == allSymbols \cup Range(uploadSymbols)

(* Symbol names that enter allSymbols. *)
CollectSymbols(allSymbols, uploadSymbols) ==
    allSymbols \cup {sym \in Range(uploadSymbols) : ~HasPrefix(sym, skipPrefix)}

(* Variant: the loop ends one upload early. *)
LoopDoneEarly(i, visibleUploads) == i >= Len(visibleUploads)

(* The loop over the visible uploads is over. *)
LoopDone(i, visibleUploads) == i > Len(visibleUploads)

(* Variant: the early return is missing. *)
ReturnsFirstResultNever(stopAfterFirstResult, locations) == FALSE

(* The first result ends the request. *)
ReturnsFirstResult(stopAfterFirstResult, locations) ==
    stopAfterFirstResult /\ Len(locations) > 0

(* The loop over the visible uploads, from upload i on.                   *)
(* st = [allLocations, allSymbols, skipPaths, calls]                      *)
RECURSIVE LocalPhase(_, _, _, _, _, _)
RECURSIVE VisitUpload(_, _, _, _, _, _, _)
RECURSIVE AdjustLocal(_, _, _, _, _, _, _)

LocalPhase(i, visibleUploads, st, limit, stopAfterFirstResult, failAt) ==
    IF LoopDone(i, visibleUploads)
    THEN [returned |-> FALSE, st |-> st]
    ELSE VisitUpload(i, visibleUploads, st,
            ExtractLocationsFromPosition(visibleUploads[i].DumpID,
                visibleUploads[i].TargetPathWithoutRoot, limit, 0),
            limit, stopAfterFirstResult, failAt)

(* Variant: an upload that yields no location contributes no symbol name. *)
VisitUploadDropsSymbols(i, visibleUploads, st, got, limit, stopAfterFirstResult, failAt) ==
    IF Fails(st.calls, failAt)
    THEN [returned |-> TRUE,
          ret |-> Failure(st.allLocations, Append(st.calls, PositionCall(visibleUploads[i].DumpID, 0, TRUE)),
                          st.skipPaths)]
    ELSE IF Len(got.locations) > 0
    THEN AdjustLocal(i, visibleUploads,
            [st EXCEPT !.calls = Append(@, PositionCall(visibleUploads[i].DumpID,
                                                        Len(got.locations), FALSE))],
            got, limit, stopAfterFirstResult, failAt)
    ELSE LocalPhase(i + 1, visibleUploads,
            [st EXCEPT !.calls = Append(@, PositionCall(visibleUploads[i].DumpID, 0, FALSE))],
            limit, stopAfterFirstResult, failAt)

(* The positional lookup of visible upload i has answered with got. *)
VisitUpload(i, visibleUploads, st, got, limit, stopAfterFirstResult, failAt) ==
    IF Fails(st.calls, failAt)
    THEN [returned |-> TRUE,
          ret |-> Failure(st.allLocations, Append(st.calls, PositionCall(visibleUploads[i].DumpID, 0, TRUE)),
                          st.skipPaths)]
    ELSE IF Len(got.locations) > 0
    THEN AdjustLocal(i, visibleUploads,
            [st EXCEPT !.calls = Append(@, PositionCall(visibleUploads[i].DumpID,
                                                        Len(got.locations), FALSE))],
            got, limit, stopAfterFirstResult, failAt)
    ELSE LocalPhase(i + 1, visibleUploads,
            [st EXCEPT !.calls = Append(@, PositionCall(visibleUploads[i].DumpID, 0, FALSE)),
                       !.allSymbols = CollectSymbols(@, got.symbols)],
            limit, stopAfterFirstResult, failAt)

(* Visible upload i has yielded locations: they are adjusted, and either  *)
(* returned at once or accumulated.                                        *)
AdjustLocal(i, visibleUploads, st, got, limit, stopAfterFirstResult, failAt) ==
    IF Fails(st.calls, failAt)
    THEN [returned |-> TRUE,
          ret |-> Failure(st.allLocations, Append(st.calls, AdjustCall(visibleUploads[i].DumpID, TRUE, TRUE)),
                          st.skipPaths)]
    ELSE IF ReturnsFirstResult(stopAfterFirstResult, got.locations)
    THEN [returned |-> TRUE,
          ret |-> Result(getUploadLocations(got.locations, TRUE), exhaustedCursor, FALSE,
                         Append(st.calls, AdjustCall(visibleUploads[i].DumpID, TRUE, FALSE)),
                         st.skipPaths)]
    ELSE LocalPhase(i + 1, visibleUploads,
            [allLocations |-> st.allLocations \o getUploadLocations(got.locations, TRUE),
             allSymbols |-> CollectSymbols(st.allSymbols, got.symbols),
             skipPaths |-> SetSkipPath(st.skipPaths, visibleUploads[i].DumpID,
                                       visibleUploads[i].TargetPathWithoutRoot),
             calls |-> Append(st.calls, AdjustCall(visibleUploads[i].DumpID, TRUE, FALSE))],
            limit, stopAfterFirstResult, failAt)

(* makeDefinitionUploadFactory *)
DefinitionUploadFactory(qualifiedMonikers, calls, failAt) ==
    IF Fails(calls, failAt)
    THEN [err |-> TRUE, ids |-> <<>>,
          calls |-> Append(calls, UploadsCall("declaring", qualifiedMonikers, <<>>, TRUE))]
    ELSE [err |-> FALSE,
          ids |-> getUploadsWithDefinitionsForMonikers(qualifiedMonikers),
          calls |-> Append(calls, UploadsCall("declaring", qualifiedMonikers,
                        getUploadsWithDefinitionsForMonikers(qualifiedMonikers), FALSE))]

(* Variant: the referencing uploads are appended without being hydrated. *)
HydrateReferencesSkipped(ids, referenceIDs, calls, failAt) ==
    [err |-> FALSE, ids |-> ids \o referenceIDs, calls |-> calls]

(* The referencing uploads are known: they are hydrated and appended. *)
HydrateReferences(ids, referenceIDs, calls, failAt) ==
    IF Fails(calls, failAt)
    THEN [err |-> TRUE, ids |-> <<>>,
          calls |-> Append(calls, UploadsCall("hydrate", <<>>, referenceIDs, TRUE))]
    ELSE [err |-> FALSE, ids |-> ids \o referenceIDs,
          calls |-> Append(calls, UploadsCall("hydrate", <<>>, referenceIDs, FALSE))]

(* The declaring uploads are known: the referencing ones are looked up. *)
FindReferences(qualifiedMonikers, defs, failAt) ==
    IF defs.err THEN defs
    ELSE IF Fails(defs.calls, failAt)
    THEN [err |-> TRUE, ids |-> <<>>,
          calls |-> Append(defs.calls, UploadsCall("referencing", qualifiedMonikers, <<>>, TRUE))]
    ELSE HydrateReferences(defs.ids,
            GetUploadIDsWithReferences(qualifiedMonikers, defs.ids,
                                       maximumIndexesPerMonikerSearch, 0).ids,
            Append(defs.calls, UploadsCall("referencing", qualifiedMonikers,
                GetUploadIDsWithReferences(qualifiedMonikers, defs.ids,
                                           maximumIndexesPerMonikerSearch, 0).ids, FALSE)),
            failAt)

(* makeReferencesUploadFactory *)
ReferencesUploadFactory(qualifiedMonikers, calls, failAt) ==
    FindReferences(qualifiedMonikers,
                   DefinitionUploadFactory(qualifiedMonikers, calls, failAt), failAt)

getSearchableUploadIDs(kind, qualifiedMonikers, calls, failAt) ==
    IF UsesReferencesUploadFactory(kind)
    THEN ReferencesUploadFactory(qualifiedMonikers, calls, failAt)
    ELSE DefinitionUploadFactory(qualifiedMonikers, calls, failAt)

(* Variant: the bulk lookup is given no paths to skip. *)
BulkSkipPathsEmpty(skipPaths) == {}

(* The skipPaths argument of the bulk lookup. *)
BulkSkipPaths(skipPaths) == skipPaths

(* Variant: a completed page hands back a cursor in the local phase. *)
CompletedCursorLocal(cursor) == [cursor EXCEPT !.Phase = "local"]

(* Variant: a completed page hands back the cursor it was given. *)
CompletedCursorUnchanged(cursor) == cursor

(* The cursor a completed page returns. *)
CompletedCursor(cursor) == exhaustedCursor

(* Variant: the local locations are left out of the result. *)
ReturnedLocationsRemoteOnly(allLocations, adjustedLocations) == adjustedLocations

(* The locations a completed page returns. *)
ReturnedLocations(allLocations, adjustedLocations) == allLocations \o adjustedLocations

(* The bulk lookup has answered with locations: they are adjusted and     *)
(* appended to the local ones.                                             *)
AdjustRemote(cursor, st, calls, locations, failAt) ==
    IF Fails(calls, failAt)
    THEN Failure(st.allLocations, Append(calls, AdjustCall(0, FALSE, TRUE)), st.skipPaths)
    ELSE Result(ReturnedLocations(st.allLocations, getUploadLocations(locations, FALSE)),
                CompletedCursor(cursor), FALSE,
                Append(calls, AdjustCall(0, FALSE, FALSE)), st.skipPaths)

(* The uploads to search are known: one bulk lookup over them. *)
BulkLookup(kind, cursor, st, qualifiedMonikers, found, locations, failAt) ==
    IF found.err THEN Failure(st.allLocations, found.calls, st.skipPaths)
    ELSE IF Fails(found.calls, failAt)
    THEN Failure(st.allLocations, Append(found.calls,
                    BulkCall(TableName(kind), found.ids, BulkSkipPaths(st.skipPaths),
                             qualifiedMonikers, 0, TRUE)),
                 st.skipPaths)
    ELSE AdjustRemote(cursor, st,
            Append(found.calls,
                   BulkCall(TableName(kind), found.ids, BulkSkipPaths(st.skipPaths),
                            qualifiedMonikers, Len(locations), FALSE)),
            locations, failAt)

(* The monikers are parsed: the uploads to search are found. *)
SearchUploads(kind, cursor, st, qualifiedMonikers, found, failAt) ==
    BulkLookup(kind, cursor, st, qualifiedMonikers, found,
               GetMinimalBulkMonikerLocations(TableName(kind), found.ids,
                    BulkSkipPaths(st.skipPaths), qualifiedMonikers, 10000, 0),
               failAt)

(* Variant: a page that collected no symbol name is an error. *)
SearchMonikersRequiresSymbols(kind, cursor, st, parsed, failAt) ==
    IF parsed.err \/ parsed.monikers = <<>>
    THEN Failure(st.allLocations, st.calls, st.skipPaths)
    ELSE SearchUploads(kind, cursor, st, parsed.monikers,
            getSearchableUploadIDs(kind, parsed.monikers, st.calls, failAt), failAt)

(* The symbol names are sorted and parsed. *)
SearchMonikers(kind, cursor, st, parsed, failAt) ==
    IF parsed.err THEN Failure(st.allLocations, st.calls, st.skipPaths)
    ELSE SearchUploads(kind, cursor, st, parsed.monikers,
            getSearchableUploadIDs(kind, parsed.monikers, st.calls, failAt), failAt)

(* Everything after the loop over the visible uploads. *)
RemotePhase(kind, cursor, st, failAt, order) ==
    SearchMonikers(kind, cursor, st,
        symbolsToMonikers(SortStrings(MapKeys(st.allSymbols, order))), failAt)

(* The loop over the visible uploads has ended. *)
AfterLocalPhase(kind, cursor, local, failAt, order) ==
    IF local.returned THEN local.ret
    ELSE RemotePhase(kind, cursor, local.st, failAt, order)

(* The visible uploads are resolved. *)
WithVisibleUploads(kind, limit, cursor, visibleUploads, failAt, order) ==
    AfterLocalPhase(kind, [cursor EXCEPT !.CursorsToVisibleUploads = visibleUploads],
        LocalPhase(1, visibleUploads,
            [allLocations |-> <<>>, allSymbols |-> {}, skipPaths |-> {},
             calls |-> <<[NoCall EXCEPT !.op = "visible"]>>],
            limit, StopAfterFirstResult(kind), failAt),
        failAt, order)

(* Variant: a cursor in no named phase is taken to have nothing left. *)
gatherLocationsNamedPhasesOnly(kind, limit, cursor, failAt, order) ==
    IF cursor.Phase = ""
    THEN Result(<<>>, exhaustedCursor, FALSE, <<>>, {})
    ELSE IF Fails(<<>>, failAt)
    THEN Result(<<>>, cursor, TRUE, <<[NoCall EXCEPT !.op = "visible", !.failed = TRUE]>>, {})
    ELSE WithVisibleUploads(kind, limit, cursor,
            getVisibleUploadsFromCursor(cursor.CursorsToVisibleUploads), failAt, order)

(* order: the order in which this run's range over allSymbols visits its  *)
(* keys.                                                                   *)
gatherLocations(kind, limit, cursor, failAt, order) ==
    IF Fails(<<>>, failAt)
    THEN Result(<<>>, cursor, TRUE, <<[NoCall EXCEPT !.op = "visible", !.failed = TRUE]>>, {})
    ELSE WithVisibleUploads(kind, limit, cursor,
            getVisibleUploadsFromCursor(cursor.CursorsToVisibleUploads), failAt, order)

----------------------------------------------------------------------------
(* qualifiedMonikerSet.  Here the components are strings proper, joined   *)
(* with ":" into the key of the hash map.                                  *)

RECURSIVE Join(_, _)
Join(elems, sep) ==
    IF elems = <<>> THEN ""
    ELSE IF Len(elems) = 1 THEN elems[1]
    ELSE elems[1] \o sep \o Join(Tail(elems), sep)

monikerHash(qualifiedMoniker) ==
    Join(<<qualifiedMoniker.Name, qualifiedMoniker.Version, qualifiedMoniker.Scheme,
           qualifiedMoniker.Manager, qualifiedMoniker.Identifier>>, ":")

(* Variant: the membership test never succeeds. *)
InHashMapNever(hashMap, hash) == FALSE

InHashMap(hashMap, hash) == hash \in hashMap

(* The qualified monikers that are added. *)
QualifiedMonikers ==
    [Name : {"a", "a:a"}, Version : {"a", "a:a"}, Scheme : {"s"},
     Manager : {"m"}, Identifier : {"i", "j"}]

add(qualifiedMoniker) ==
    /\ Len(lastAdd) < MaxAdds
    /\ lastAdd' = Append(lastAdd, qualifiedMoniker)
    /\ IF InHashMap(monikerHashMap, monikerHash(qualifiedMoniker))
       THEN UNCHANGED <<monikers, monikerHashMap>>
       ELSE /\ monikerHashMap' = monikerHashMap \cup {monikerHash(qualifiedMoniker)}
            /\ monikers' = Append(monikers, qualifiedMoniker)
    /\ UNCHANGED <<corpusVars, chainVars, cursorVars, hydrationVars>>

----------------------------------------------------------------------------
(* The Cursor of types.go: its fields, the transitions that advance its   *)
(* offsets, and its serialized form.                                       *)

CursorFields ==
    <<"Phase", "VisibleUploads", "LocalUploadOffset", "LocalLocationOffset",
      "SymbolNames", "SkipPathsByUploadID", "DefinitionIDs", "UploadIDs",
      "RemoteUploadOffset", "RemoteLocationOffset">>

(* The JSON keys of the fields: of the present schema, and of the schema  *)
(* before it.                                                              *)
KeysCurrent == <<"a", "b", "c", "d", "e", "f", "g", "h", "i", "j">>
KeysPrevious == <<"k0", "k1", "k2", "k3", "k4", "k5", "k6", "k7", "k8", "k9">>

ZeroCursor ==
    [Phase |-> "", VisibleUploads |-> <<>>, LocalUploadOffset |-> 0,
     LocalLocationOffset |-> 0, SymbolNames |-> <<>>, SkipPathsByUploadID |-> {},
     DefinitionIDs |-> <<>>, UploadIDs |-> <<>>, RemoteUploadOffset |-> 0,
     RemoteLocationOffset |-> 0]

(* Variant: the upload counts as consumed only past its total. *)
BumpLocalLocationOffsetPastTotal(c, n, totalCount) ==
    IF c.LocalLocationOffset + n > totalCount
    THEN [c EXCEPT !.LocalUploadOffset = @ + 1, !.LocalLocationOffset = 0]
    ELSE [c EXCEPT !.LocalLocationOffset = @ + n]

(* Variant: moving on to the next upload keeps the location offset. *)
BumpLocalLocationOffsetKeepsOffset(c, n, totalCount) ==
    IF c.LocalLocationOffset + n >= totalCount
    THEN [c EXCEPT !.LocalUploadOffset = @ + 1]
    ELSE [c EXCEPT !.LocalLocationOffset = @ + n]

BumpLocalLocationOffset(c, n, totalCount) ==
    IF c.LocalLocationOffset + n >= totalCount
    THEN [c EXCEPT !.LocalUploadOffset = @ + 1, !.LocalLocationOffset = 0]
    ELSE [c EXCEPT !.LocalLocationOffset = @ + n]

(* Variant: the batches count as consumed only past their total. *)
BumpRemoteUploadOffsetPastTotal(c, n, totalCount) ==
    IF c.RemoteUploadOffset + n > totalCount
    THEN [c EXCEPT !.RemoteUploadOffset = -1]
    ELSE [c EXCEPT !.RemoteUploadOffset = @ + n]

(* Variant: the offset is moved back by n. *)
BumpRemoteUploadOffsetBackwards(c, n, totalCount) ==
    IF c.RemoteUploadOffset - n >= totalCount
    THEN [c EXCEPT !.RemoteUploadOffset = -1]
    ELSE [c EXCEPT !.RemoteUploadOffset = @ - n]

(* Variant: exhausting the upload batches also drops the current batch. *)
BumpRemoteUploadOffsetClearsBatch(c, n, totalCount) ==
    IF c.RemoteUploadOffset + n >= totalCount
    THEN [c EXCEPT !.RemoteUploadOffset = -1, !.UploadIDs = <<>>]
    ELSE [c EXCEPT !.RemoteUploadOffset = @ + n]

BumpRemoteUploadOffset(c, n, totalCount) ==
    IF c.RemoteUploadOffset + n >= totalCount
    THEN [c EXCEPT !.RemoteUploadOffset = -1]
    ELSE [c EXCEPT !.RemoteUploadOffset = @ + n]

(* Variant: the batch of upload ids is kept when its locations are        *)
(* consumed.                                                               *)
BumpRemoteLocationOffsetKeepsBatch(c, n, totalCount) ==
    IF c.RemoteLocationOffset + n >= totalCount
    THEN [c EXCEPT !.RemoteLocationOffset = 0]
    ELSE [c EXCEPT !.RemoteLocationOffset = @ + n]

BumpRemoteLocationOffset(c, n, totalCount) ==
    IF c.RemoteLocationOffset + n >= totalCount
    THEN [c EXCEPT !.UploadIDs = <<>>, !.RemoteLocationOffset = 0]
    ELSE [c EXCEPT !.RemoteLocationOffset = @ + n]

(* The struct serialized to JSON: one member per field, under the         *)
(* field's key.                                                            *)
MarshalCursor(c, keys) ==
    [k \in Range(keys) |->
        c[CursorFields[CHOOSE i \in 1..Len(keys) : keys[i] = k]]]

(* The decoder takes a token of its own schema only. *)
SchemaAccepted(token, keys) == DOMAIN token = Range(keys)

UnmarshalCursor(token, keys) ==
    [Phase |-> token[keys[1]], VisibleUploads |-> token[keys[2]],
     LocalUploadOffset |-> token[keys[3]], LocalLocationOffset |-> token[keys[4]],
     SymbolNames |-> token[keys[5]], SkipPathsByUploadID |-> token[keys[6]],
     DefinitionIDs |-> token[keys[7]], UploadIDs |-> token[keys[8]],
     RemoteUploadOffset |-> token[keys[9]], RemoteLocationOffset |-> token[keys[10]]]

NoToken == [has |-> FALSE, token |-> <<>>, decodedFrom |-> "none", rejected |-> FALSE]

NoBump == [op |-> "none", n |-> 0, totalCount |-> 0, before |-> ZeroCursor,
           receiver |-> ZeroCursor]

InitCursor ==
    /\ cur = ZeroCursor
    /\ codec = NoToken
    /\ lastBump = NoBump

(* The request in progress fetches its batch of remote uploads. *)
RemoteBatchFetched ==
    /\ ~codec.has
    /\ cur.UploadIDs = <<>>
    /\ cur' = [cur EXCEPT !.Phase = "remote", !.UploadIDs = <<ReferencingUpload>>]
    /\ lastBump' = NoBump
    /\ UNCHANGED <<codec, corpusVars, chainVars, setVars, hydrationVars>>

(* Variant: the method has a pointer receiver and works on the caller's   *)
(* cursor.                                                                 *)
ReceiverAfterCallAliased(c, bumped) == bumped

(* What the cursor a Bump method was called on holds after the call: the  *)
(* receiver is passed by value, the method works on its own copy.         *)
ReceiverAfterCall(c, bumped) == c

(* cursor = cursor.Bump...(n, totalCount) *)
BumpCall(op, n, totalCount, bumped) ==
    /\ ~codec.has
    /\ cur' = bumped
    /\ lastBump' = [op |-> op, n |-> n, totalCount |-> totalCount, before |-> cur,
                    receiver |-> ReceiverAfterCall(cur, bumped)]
    /\ UNCHANGED <<codec, corpusVars, chainVars, setVars, hydrationVars>>

(* The request in progress consumes n of totalCount results. *)
LocalLocationsConsumed ==
    /\ cur.LocalUploadOffset < MaxUploadOffset
    /\ \E n \in 0..MaxTotal, totalCount \in 0..MaxTotal :
          BumpCall("BumpLocalLocationOffset", n, totalCount,
                   BumpLocalLocationOffset(cur, n, totalCount))

RemoteUploadsConsumed ==
    \E n \in 0..MaxTotal, totalCount \in 0..MaxTotal :
        BumpCall("BumpRemoteUploadOffset", n, totalCount,
                 BumpRemoteUploadOffset(cur, n, totalCount))

RemoteLocationsConsumed ==
    \E n \in 0..MaxTotal, totalCount \in 0..MaxTotal :
        BumpCall("BumpRemoteLocationOffset", n, totalCount,
                 BumpRemoteLocationOffset(cur, n, totalCount))

(* The request ends: its cursor is serialized and handed to the client,   *)
(* by this build or by one of the schema before.                          *)
EncodeCursor(keys) ==
    /\ ~codec.has
    /\ codec' = [has |-> TRUE, token |-> MarshalCursor(cur, keys),
                 decodedFrom |-> "none", rejected |-> FALSE]
    /\ cur' = ZeroCursor
    /\ lastBump' = NoBump
    /\ UNCHANGED <<corpusVars, chainVars, setVars, hydrationVars>>

(* The next request presents the token. *)
DecodeCursor ==
    /\ codec.has
    /\ codec' = [has |-> FALSE, token |-> <<>>,
                 decodedFrom |-> IF DOMAIN codec.token = Range(KeysPrevious)
                                 THEN "previous" ELSE "current",
                 rejected |-> ~SchemaAccepted(codec.token, KeysCurrent)]
    /\ cur' = IF SchemaAccepted(codec.token, KeysCurrent)
              THEN UnmarshalCursor(codec.token, KeysCurrent)
              ELSE ZeroCursor
    /\ lastBump' = NoBump
    /\ UNCHANGED <<corpusVars, chainVars, setVars, hydrationVars>>

----------------------------------------------------------------------------
(* Hydration of upload records, shared by the requests in flight.         *)

Requests == 1..MaxRequests

HydratedIDs == {ReferencingUpload, FarUpload}

Idle == [state |-> "idle", id |-> 0, saw |-> 0]

(* The record a fetch of upload id materializes; it carries the number of *)
(* the fetch that produced it.                                             *)
UploadRecord(id) == fetches[id]

InitHydration ==
    /\ uploadCache = {}
    /\ inflight = [id \in HydratedIDs |-> 0]
    /\ fetches = [id \in HydratedIDs |-> 0]
    /\ reqs = [r \in Requests |-> Idle]

(* Variant: a fetch under way is never joined. *)
FetchInFlightNever(id) == FALSE

(* A fetch of id is under way and may be joined. *)
FetchInFlight(id) == inflight[id] > 0

(* Request r needs the record of upload id: it is served from the cache,  *)
(* or joins the fetch under way, or starts the fetch.                     *)
Hydrate(r, id) ==
    /\ reqs[r].state = "idle"
    /\ IF id \in uploadCache
       THEN /\ reqs' = [reqs EXCEPT ![r] = [state |-> "done", id |-> id,
                                            saw |-> UploadRecord(id)]]
            /\ UNCHANGED <<inflight, fetches>>
       ELSE IF FetchInFlight(id)
       THEN /\ reqs' = [reqs EXCEPT ![r] = [state |-> "waiting", id |-> id, saw |-> 0]]
            /\ UNCHANGED <<inflight, fetches>>
       ELSE /\ fetches[id] < MaxFetches
            /\ reqs' = [reqs EXCEPT ![r] = [state |-> "waiting", id |-> id, saw |-> 0]]
            /\ inflight' = [inflight EXCEPT ![id] = @ + 1]
            /\ fetches' = [fetches EXCEPT ![id] = @ + 1]
    /\ UNCHANGED <<uploadCache, corpusVars, chainVars, setVars, cursorVars>>

(* A fetch of id returns: the record is cached and every request that     *)
(* waits for it observes it.                                               *)
FetchReturns(id) ==
    /\ inflight[id] > 0
    /\ inflight' = [inflight EXCEPT ![id] = @ - 1]
    /\ uploadCache' = uploadCache \cup {id}
    /\ reqs' = [r \in Requests |->
                   IF reqs[r].state = "waiting" /\ reqs[r].id = id
                   THEN [state |-> "done", id |-> id, saw |-> UploadRecord(id)]
                   ELSE reqs[r]]
    /\ UNCHANGED <<fetches, corpusVars, chainVars, setVars, cursorVars>>

(* A fetch of id fails: every request that waits for it fails, and the    *)
(* record stays unhydrated.                                                *)
FetchFails(id) ==
    /\ inflight[id] > 0
    /\ inflight' = [inflight EXCEPT ![id] = @ - 1]
    /\ reqs' = [r \in Requests |->
                   IF reqs[r].state = "waiting" /\ reqs[r].id = id
                   THEN [state |-> "failed", id |-> id, saw |-> 0]
                   ELSE reqs[r]]
    /\ UNCHANGED <<uploadCache, fetches, corpusVars, chainVars, setVars, cursorVars>>

(* Request r is over; another takes its place. *)
RequestEnds(r) ==
    /\ reqs[r].state \in {"done", "failed"}
    /\ reqs' = [reqs EXCEPT ![r] = Idle]
    /\ UNCHANGED <<uploadCache, inflight, fetches, corpusVars, chainVars, setVars,
                   cursorVars>>

----------------------------------------------------------------------------
(* Request sequences.  The caller asks for pages of one query; a page     *)
(* that fails leaves the caller with the cursor it held.                   *)

SymCases == 1..3

(* Cursors a caller may present on the first page. *)
StartCursors ==
    {EmptyCursor, GenericCursor("local", <<>>), GenericCursor("remote", <<>>),
     exhaustedCursor}

(* No page issues more sub-lookups than this. *)
MaxCalls == 2 * MaxVisible + 6

NoPage ==
    [page |-> 0, kind |-> "", supplied |-> EmptyCursor, locations |-> <<>>,
     cursor |-> EmptyCursor, err |-> FALSE, calls |-> <<>>, skipPaths |-> {}]

InitCorpus ==
    /\ nVisible \in 0..MaxVisible
    /\ localCount \in [1..nVisible -> 0..MaxLocal]
    /\ symCase \in SymCases

InitChain ==
    /\ args = [kind |-> "", Limit |-> 0]
    /\ heldCursor = EmptyCursor
    /\ page = 0
    /\ last = NoPage
    /\ seen = {}
    /\ recorded = {}

InitSet ==
    /\ monikers = <<>>
    /\ monikerHashMap = {}
    /\ lastAdd = <<>>

Init == InitCorpus /\ InitChain /\ InitSet /\ InitCursor /\ InitHydration

(* One page of the sequence: the query runs and the caller keeps what it  *)
(* was handed.                                                             *)
Page(kind, limit, supplied, failAt, takesCursor) ==
    /\ page < MaxPages
    /\ page = 0 \/ (args.kind = kind /\ args.Limit = limit /\ supplied = heldCursor)
    /\ \E out \in {gatherLocations(kind, limit, supplied, failAt, order) :
                        order \in IterationOrders} :
          /\ last' = [page |-> page + 1, kind |-> kind, supplied |-> supplied,
                      locations |-> out.locations, cursor |-> out.cursor,
                      err |-> out.err, calls |-> out.calls,
                      skipPaths |-> out.skipPaths]
          /\ heldCursor' = IF takesCursor /\ ~out.err THEN out.cursor ELSE supplied
          /\ recorded' = recorded \cup out.skipPaths
    /\ args' = [kind |-> kind, Limit |-> limit]
    /\ page' = page + 1
    /\ seen' = seen \cup Range(last.locations)
    /\ UNCHANGED <<corpusVars, setVars, cursorVars, hydrationVars>>

(* The four entry points.  faults: the sub-lookups of the page, counted  *)
(* in issue order, that may fail (0: none does).                          *)
NewGetDefinitions(faults) ==
    \E limit \in Limits, failAt \in faults :
        Page("definitions", limit, EmptyCursor, failAt, FALSE)

NewGetReferences(faults) ==
    \E limit \in Limits, supplied \in StartCursors \cup {heldCursor}, failAt \in faults :
        Page("references", limit, supplied, failAt, TRUE)

NewGetImplementations(faults) ==
    \E limit \in Limits, supplied \in StartCursors \cup {heldCursor}, failAt \in faults :
        Page("implementations", limit, supplied, failAt, TRUE)

NewGetPrototypes(faults) ==
    \E limit \in Limits, supplied \in StartCursors \cup {heldCursor}, failAt \in faults :
        Page("prototypes", limit, supplied, failAt, TRUE)

(* Request sequences whose pages complete. *)
Next ==
    \/ NewGetDefinitions({0})
    \/ NewGetReferences({0})
    \/ NewGetImplementations({0})
    \/ NewGetPrototypes({0})

Spec == Init /\ [][Next]_vars

(* Single pages on which any one sub-lookup may fail. *)
NextFaults ==
    \/ page = 0 /\ NewGetDefinitions(0..MaxCalls)
    \/ page = 0 /\ NewGetReferences(0..MaxCalls)
    \/ page = 0 /\ NewGetImplementations(0..MaxCalls)
    \/ page = 0 /\ NewGetPrototypes(0..MaxCalls)

SpecFaults == Init /\ [][NextFaults]_vars

(* The moniker set on its own. *)
InitMonikerSet ==
    /\ nVisible = 0
    /\ localCount = <<>>
    /\ symCase = 1
    /\ InitChain
    /\ InitSet
    /\ InitCursor
    /\ InitHydration

NextMonikerSet == \E qualifiedMoniker \in QualifiedMonikers : add(qualifiedMoniker)

SpecMonikerSet == InitMonikerSet /\ [][NextMonikerSet]_vars

(* The cursor of one client, over requests and the tokens between them. *)
NextCursor ==
    \/ RemoteBatchFetched
    \/ LocalLocationsConsumed
    \/ RemoteUploadsConsumed
    \/ RemoteLocationsConsumed
    \/ EncodeCursor(KeysCurrent)
    \/ EncodeCursor(KeysPrevious)
    \/ DecodeCursor

SpecCursor == InitMonikerSet /\ [][NextCursor]_vars

(* Requests in flight that hydrate upload records. *)
NextHydration ==
    \/ \E r \in Requests, id \in HydratedIDs : Hydrate(r, id)
    \/ \E id \in HydratedIDs : FetchReturns(id)
    \/ \E id \in HydratedIDs : FetchFails(id)
    \/ \E r \in Requests : RequestEnds(r)

SpecHydration == InitMonikerSet /\ [][NextHydration]_vars

----------------------------------------------------------------------------
(* Reading the outcome of the last page. *)

Requested == last.page > 0

Completed == Requested /\ ~last.err

RemoteOps == {"declaring", "referencing", "hydrate", "bulk"}

IsPositionCall(call) == call.op = "position"

(* The uploads whose positional lookup the calls issue, in issue order. *)
PositionUploads(calls) ==
    [i \in 1..Len(SelectSeq(calls, IsPositionCall)) |->
        SelectSeq(calls, IsPositionCall)[i].upload]

(* The visible uploads of the last page, in order. *)
VisibleIDs ==
    [i \in 1..Len(getVisibleUploadsFromCursor(last.supplied.CursorsToVisibleUploads)) |->
        getVisibleUploadsFromCursor(last.supplied.CursorsToVisibleUploads)[i].DumpID]

(* What the positional lookup of upload u yields on the last page, adjusted. *)
LocalYield(u) ==
    getUploadLocations(ExtractLocationsFromPosition(u, TargetPath, args.Limit, 0).locations, TRUE)

(* The first visible upload whose lookup yields a location, 0 if none does. *)
FirstYielding ==
    IF \E i \in 1..Len(VisibleIDs) : LocalYield(VisibleIDs[i]) # <<>>
    THEN VisibleIDs[CHOOSE i \in 1..Len(VisibleIDs) :
            /\ LocalYield(VisibleIDs[i]) # <<>>
            /\ \A j \in 1..(i - 1) : LocalYield(VisibleIDs[j]) = <<>>]
    ELSE 0

(* The local locations of every visible upload, in visible-upload order. *)
AllLocalYield == Flatten([i \in 1..Len(VisibleIDs) |-> LocalYield(VisibleIDs[i])])

(* The locations of the last page that the bulk lookup contributed. *)
RemoteLocations ==
    SubSeq(last.locations, Len(AllLocalYield) + 1, Len(last.locations))

NoRemoteMatches == \A j \in 1..Len(last.calls) : last.calls[j].found = 0 \/ last.calls[j].op # "bulk"

----------------------------------------------------------------------------
(* C1: for a references or implementations query, no location returned on *)
(* one page of a cursor chain is returned again on a later page.          *)
C1_NoLocationOnTwoPages ==
    (Requested /\ last.kind \in {"references", "implementations"})
        => \A l \in Range(last.locations) : l \notin seen

(* C2: a references, implementations or prototypes call with a done       *)
(* cursor returns no locations, no error, and the done cursor it was      *)
(* given.                                                                  *)
C2_DoneCursorYieldsNothing ==
    (Requested /\ last.kind # "definitions" /\ last.supplied.Phase = "done")
        => /\ last.locations = <<>>
           /\ ~last.err
           /\ last.cursor = last.supplied

(* C3: the phase never regresses along a cursor chain: the cursor a       *)
(* completed page returns, and the cursor the caller then holds, is in    *)
(* the same or a later phase than the cursor supplied to the page.        *)
C3_PhaseNeverRegresses ==
    Completed =>
        /\ PhaseRank(last.cursor.Phase) >= PhaseRank(last.supplied.Phase)
        /\ PhaseRank(heldCursor.Phase) >= PhaseRank(last.supplied.Phase)

C3_Witness ==
    /\ Completed
    /\ last.page > 1
    /\ last.kind = "references"
    /\ last.supplied.Phase = "done"
    /\ last.cursor.Phase = "done"

(* C4: in stop-after-first mode (a definitions query), once the           *)
(* positional lookup of a visible upload has returned a location, the     *)
(* request issues nothing but the adjustment of those locations: no       *)
(* positional lookup of a later upload, no upload discovery, no bulk      *)
(* moniker lookup.                                                         *)
C4_NothingAfterFirstResult ==
    (Requested /\ last.kind = "definitions") =>
        \A i \in 1..Len(last.calls) :
            (last.calls[i].op = "position" /\ last.calls[i].found > 0) =>
                /\ Len(last.calls) = i + 1
                /\ last.calls[i + 1].op = "adjust"
                /\ last.calls[i + 1].upload = last.calls[i].upload

C4_Witness ==
    /\ Completed
    /\ last.kind = "definitions"
    /\ nVisible = 2
    /\ localCount[1] > 0
    /\ localCount[2] > 0
    /\ symCase = 2
    /\ PositionUploads(last.calls) = <<1>>

(* C5 as claimed: for definitions, implementations and prototypes alike,  *)
(* the first visible upload that yields a location ends the request with  *)
(* exactly its adjusted locations and the done cursor.                    *)
C5_ThreeKindsShortCircuit ==
    (Completed /\ last.kind \in {"definitions", "implementations", "prototypes"}
               /\ FirstYielding # 0)
        => /\ last.locations = LocalYield(FirstYielding)
           /\ last.cursor = exhaustedCursor

(* C5, amended: a definitions query, the one kind run with                *)
(* stopAfterFirstResult set, is ended by the first visible upload that    *)
(* yields a location, with exactly that upload's adjusted locations and   *)
(* the done cursor.                                                        *)
C5_DefinitionsShortCircuit ==
    (Completed /\ last.kind = "definitions" /\ FirstYielding # 0)
        => /\ last.locations = LocalYield(FirstYielding)
           /\ last.cursor = exhaustedCursor

C5_Witness ==
    /\ Completed
    /\ last.kind = "definitions"
    /\ nVisible = 2
    /\ FirstYielding = 2
    /\ symCase = 2
    /\ Len(last.locations) > 1

(* C6: a references query looks every visible upload up, in visible-      *)
(* upload order, and collects its locations, before it issues any upload  *)
(* discovery or bulk moniker lookup.                                       *)
C6_LocalBeforeRemote ==
    (Requested /\ last.kind = "references") =>
        /\ \A j \in 1..Len(last.calls) :
              last.calls[j].op \in RemoteOps =>
                  PositionUploads(SubSeq(last.calls, 1, j - 1)) = VisibleIDs
        /\ Completed => /\ PositionUploads(last.calls) = VisibleIDs
                        /\ Take(last.locations, Len(AllLocalYield)) = AllLocalYield

C6_Witness ==
    /\ Completed
    /\ last.kind = "references"
    /\ nVisible = 2
    /\ localCount[1] > 0
    /\ localCount[2] > 0
    /\ \E j \in 1..Len(last.calls) : last.calls[j].op = "bulk" /\ last.calls[j].found > 0

(* C7: on every page of a request sequence the bulk lookup is given a     *)
(* skipPaths that holds every (uploadID, path) pair the local phases of   *)
(* the sequence have recorded, earlier pages included, and no location    *)
(* the bulk lookup contributes carries such a pair.                        *)
C7_SkipPathsCarried ==
    Requested =>
        /\ \A j \in 1..Len(last.calls) :
              last.calls[j].op = "bulk" => recorded \subseteq last.calls[j].skipPaths
        /\ \A i \in 1..Len(RemoteLocations) :
              <<RemoteLocations[i].DumpID, RemoteLocations[i].Path>> \notin recorded

C7_Witness ==
    /\ Completed
    /\ last.page > 1
    /\ last.kind = "references"
    /\ Cardinality(recorded) = 2
    /\ RemoteLocations # <<>>
    /\ \E j \in 1..Len(last.calls) :
          /\ last.calls[j].op = "bulk"
          /\ last.calls[j].skipPaths = recorded
          /\ 1 \in Range(last.calls[j].uploadIDs)

(* C8: adding a qualified moniker equal to one in the set leaves the set  *)
(* unchanged, and after any sequence of adds no tuple occurs twice in     *)
(* monikers, while every added tuple whose key no other added tuple       *)
(* shares occurs exactly once.                                             *)
Occurrences(q) == Cardinality({i \in 1..Len(monikers) : monikers[i] = q})

C8_AddDeduplicates ==
    /\ [][(lastAdd' # lastAdd /\ lastAdd'[Len(lastAdd')] \in Range(monikers))
            => (monikers' = monikers /\ monikerHashMap' = monikerHashMap)]_vars
    /\ [](\A q \in Range(monikers) : Occurrences(q) = 1)
    /\ [](\A q \in Range(lastAdd) :
            (\A r \in Range(lastAdd) : monikerHash(r) = monikerHash(q) => r = q)
                => Occurrences(q) = 1)

C8_Witness ==
    /\ Len(lastAdd) = 3
    /\ lastAdd[1] = lastAdd[3]
    /\ lastAdd[1] # lastAdd[2]
    /\ Len(monikers) = 2

(* C9, scenario A: one visible upload with 3 local locations, no remote   *)
(* match, page limit 10: the first page returns exactly those 3 adjusted  *)
(* locations, and the done cursor.                                         *)
C9_ScenarioA ==
    (Completed /\ last.page = 1 /\ nVisible = 1 /\ localCount[1] = 3
               /\ args.Limit = 10 /\ NoRemoteMatches)
        => /\ last.locations = getUploadLocations(LocalLocations(1), TRUE)
           /\ Len(last.locations) = 3
           /\ last.cursor = exhaustedCursor

C9_Witness ==
    /\ Completed
    /\ last.page = 1
    /\ last.kind = "references"
    /\ nVisible = 1
    /\ localCount[1] = 3
    /\ args.Limit = 10
    /\ NoRemoteMatches
    /\ \E j \in 1..Len(last.calls) : last.calls[j].op = "bulk"

(* C10, scenario B: references over two visible uploads with 2 references *)
(* each, page limit 2: page 1 returns the 2 locations of the first upload *)
(* and a cursor that is not done; page 2 returns the 2 locations of the   *)
(* second.                                                                 *)
C10_ScenarioB ==
    (Completed /\ last.kind = "references" /\ nVisible = 2
               /\ localCount[1] = 2 /\ localCount[2] = 2 /\ args.Limit = 2)
        => /\ (last.page = 1 /\ last.supplied = EmptyCursor)
                => /\ last.locations = LocalYield(1)
                   /\ last.cursor.Phase # "done"
           /\ (last.page = 2 /\ PositionUploads(last.calls) # <<>>)
                => last.locations = LocalYield(2)

----------------------------------------------------------------------------
(* The symbol names the local phase of the last page collects when it     *)
(* visits every visible upload.                                            *)
CollectedSymbols ==
    UNION {CollectSymbols({}, UploadSymbols(VisibleIDs[i])) : i \in 1..Len(VisibleIDs)}

(* Some sub-lookup of the last page failed. *)
SomeCallFailed == \E j \in 1..Len(last.calls) : last.calls[j].failed

(* The ops whose call carries a moniker list. *)
MonikerOps == {"declaring", "referencing", "bulk"}

(* C11: no symbol name that starts with the marker prefix "lsif ." is     *)
(* among the monikers handed to the upload finder or to the bulk moniker  *)
(* lookup, whatever the query kind and the visible uploads.               *)
C11_MarkerSymbolsNeverSearched ==
    Requested =>
        \A j \in 1..Len(last.calls) :
            last.calls[j].op \in MonikerOps =>
                \A i \in 1..Len(last.calls[j].monikers) :
                    ~HasPrefix(last.calls[j].monikers[i].Identifier, skipPrefix)

C11_Witness ==
    /\ Completed
    /\ symCase = 2
    /\ nVisible = 2
    /\ localCount[1] > 0
    /\ \E j \in 1..Len(last.calls) :
          /\ last.calls[j].op = "bulk"
          /\ Len(last.calls[j].monikers) = 2
          /\ last.calls[j].monikers[1].Identifier = SymA
          /\ last.calls[j].monikers[2].Identifier = SymB

(* C12: a page on which any sub-lookup fails, or whose symbol names do    *)
(* not parse, returns the error and no location at all, even when         *)
(* earlier visible uploads had produced locations.                        *)
C12_NoPartialPages ==
    Requested =>
        /\ SomeCallFailed => last.err
        /\ last.err => last.locations = <<>>

C12_Witness ==
    /\ last.err
    /\ last.kind = "references"
    /\ nVisible = 2
    /\ \E j \in 1..Len(last.calls) :
          /\ last.calls[j].op = "adjust"
          /\ last.calls[j].upload = 1
          /\ ~last.calls[j].failed
    /\ last.calls[Len(last.calls)].op = "hydrate"
    /\ last.calls[Len(last.calls)].failed

(* C13: the cursor handed back by a page that fails is never the done     *)
(* cursor, and is in no later phase than the cursor supplied; the caller  *)
(* still holds the cursor it supplied.                                     *)
C13_FailedPageCursorNeverDone ==
    (Requested /\ last.err) =>
        /\ last.cursor.Phase # "done"
        /\ PhaseRank(last.cursor.Phase) <= PhaseRank(last.supplied.Phase)
        /\ heldCursor = last.supplied

(* C14: when a collected symbol name does not parse and no sub-lookup     *)
(* fails before the names are parsed, the request fails, returns no       *)
(* location, and issues no upload discovery or bulk lookup: the name is   *)
(* not skipped.                                                            *)
C14_ParseFailureIsFatal ==
    (/\ Requested
     /\ SymBad \in CollectedSymbols
     /\ ~SomeCallFailed
     /\ ~(StopAfterFirstResult(last.kind) /\ FirstYielding # 0))
        => /\ last.err
           /\ last.locations = <<>>
           /\ \A j \in 1..Len(last.calls) : last.calls[j].op \notin RemoteOps

C14_Witness ==
    /\ last.err
    /\ ~SomeCallFailed
    /\ last.kind = "references"
    /\ symCase = 3
    /\ nVisible = 2
    /\ localCount[1] > 0
    /\ SymA \in CollectedSymbols
    /\ SymBad \in CollectedSymbols

(* C15: when no upload covers the requested position and no sub-lookup    *)
(* fails, the query completes with an empty location list and no error.   *)
C15_NoVisibleUploadYieldsEmpty ==
    (Requested /\ VisibleIDs = <<>> /\ ~SomeCallFailed)
        => /\ ~last.err
           /\ last.locations = <<>>

C15_Witness ==
    /\ Completed
    /\ nVisible = 0
    /\ last.kind = "references"
    /\ last.locations = <<>>
    /\ \E j \in 1..Len(last.calls) : last.calls[j].op = "bulk"

(* The sub-lookup of the last page that failed, 0 if none did. *)
FailedAt ==
    IF SomeCallFailed
    THEN CHOOSE j \in 1..Len(last.calls) : last.calls[j].failed
    ELSE 0

(* Two outcomes of a page agree: same locations, same error, same         *)
(* sub-lookups, same returned cursor, the empty phase read as local.      *)
SamePage(a, b) ==
    /\ a.locations = b.locations
    /\ a.err = b.err
    /\ a.calls = b.calls
    /\ PhaseRank(a.cursor.Phase) = PhaseRank(b.cursor.Phase)
    /\ a.cursor.CursorsToVisibleUploads = b.cursor.CursorsToVisibleUploads

(* C16: a page requested with the zero-value cursor has the outcome of    *)
(* the same page requested with a fresh cursor in phase local, and the    *)
(* other way round.                                                        *)
C16_ZeroCursorIsFreshLocal ==
    (Requested /\ last.kind # "definitions") =>
        /\ last.supplied = EmptyCursor =>
              \E order \in IterationOrders :
                  SamePage(last, gatherLocations(last.kind, args.Limit,
                                    GenericCursor("local", <<>>), FailedAt, order))
        /\ last.supplied = GenericCursor("local", <<>>) =>
              \E order \in IterationOrders :
                  SamePage(last, gatherLocations(last.kind, args.Limit, EmptyCursor,
                                                 FailedAt, order))

C16_Witness ==
    /\ Completed
    /\ last.kind = "references"
    /\ last.supplied = EmptyCursor
    /\ nVisible = 2
    /\ localCount[2] > 0
    /\ Len(last.locations) > localCount[2]

(* The reverse index holds more referencing uploads than the finder was   *)
(* asked for on the last page.                                             *)
MoreReferencesRemain ==
    \E j \in 2..Len(last.calls) :
        /\ last.calls[j].op = "referencing"
        /\ ~last.calls[j].failed
        /\ GetUploadIDsWithReferences(last.calls[j].monikers, last.calls[j - 1].uploadIDs,
                                      maximumIndexesPerMonikerSearch, 0).totalCount
              > Len(last.calls[j].uploadIDs)

(* C18: a references page whose upload finder reports referencing uploads *)
(* beyond the fan-out ceiling does not return the done cursor.            *)
C18_DoneOnlyWhenFinderExhausted ==
    (Completed /\ last.kind = "references" /\ MoreReferencesRemain)
        => last.cursor.Phase # "done"

(* C19: every invocation of the location adjuster on one page uses the    *)
(* same policy for ranges that no longer exist: the local-phase and the   *)
(* remote-phase locations are adjusted alike.                              *)
C19_OneAdjustPolicyPerPage ==
    Requested =>
        \A i, j \in 1..Len(last.calls) :
            (last.calls[i].op = "adjust" /\ last.calls[j].op = "adjust")
                => last.calls[i].fallback = last.calls[j].fallback

----------------------------------------------------------------------------
(* A token carries a member that is no field of the cursor, of either     *)
(* schema: a schema-version discriminator.                                 *)
HasDiscriminator(token) ==
    \E k \in DOMAIN token : k \notin Range(KeysCurrent) \cup Range(KeysPrevious)

(* C17: every serialized cursor carries a schema-version discriminator,   *)
(* and a token written under the other schema is rejected when decoded.   *)
C17_TokenCarriesSchemaVersion ==
    /\ codec.has => HasDiscriminator(codec.token)
    /\ codec.decodedFrom = "previous" => codec.rejected

(* C20: when requests in flight need the record of one upload that is not *)
(* hydrated, one fetch of it is under way, not more, whoever waits; and   *)
(* the requests that were served the record of an upload all observed the *)
(* same record.                                                            *)
C20_SingleFlightHydration ==
    /\ \A id \in HydratedIDs :
          /\ inflight[id] <= 1
          /\ (\E r \in Requests : reqs[r].state = "waiting" /\ reqs[r].id = id)
                => inflight[id] = 1
    /\ \A r1, r2 \in Requests :
          (reqs[r1].state = "done" /\ reqs[r2].state = "done" /\ reqs[r1].id = reqs[r2].id)
              => reqs[r1].saw = reqs[r2].saw

C20_Witness ==
    /\ reqs[1].state = "waiting"
    /\ reqs[2].state = "waiting"
    /\ reqs[1].id = FarUpload
    /\ reqs[2].id = FarUpload
    /\ inflight[FarUpload] = 1
    /\ fetches[FarUpload] = 1
    /\ reqs[3].state = "done"
    /\ reqs[3].id = ReferencingUpload

----------------------------------------------------------------------------
(* Reading the last Bump call. *)

Bumped(op) == lastBump.op = op

(* C21: BumpLocalLocationOffset(n, totalCount) adds n to                  *)
(* LocalLocationOffset when the sum is below totalCount; otherwise it     *)
(* sets LocalLocationOffset to 0 and adds exactly 1 to LocalUploadOffset. *)
C21_BumpLocalLocationOffset ==
    Bumped("BumpLocalLocationOffset") =>
        IF lastBump.before.LocalLocationOffset + lastBump.n < lastBump.totalCount
        THEN /\ cur.LocalLocationOffset = lastBump.before.LocalLocationOffset + lastBump.n
             /\ cur.LocalUploadOffset = lastBump.before.LocalUploadOffset
        ELSE /\ cur.LocalLocationOffset = 0
             /\ cur.LocalUploadOffset = lastBump.before.LocalUploadOffset + 1

C21_Witness ==
    /\ Bumped("BumpLocalLocationOffset")
    /\ lastBump.before.LocalLocationOffset = 1
    /\ lastBump.n = 1
    /\ lastBump.totalCount = 2
    /\ lastBump.before.LocalUploadOffset = 1
    /\ cur.LocalUploadOffset = 2

(* C22: BumpRemoteLocationOffset(n, totalCount) adds n to                 *)
(* RemoteLocationOffset when the sum is below totalCount; otherwise it    *)
(* empties the upload-id batch and sets RemoteLocationOffset to 0; it     *)
(* leaves RemoteUploadOffset alone either way.                            *)
C22_BumpRemoteLocationOffset ==
    Bumped("BumpRemoteLocationOffset") =>
        /\ cur.RemoteUploadOffset = lastBump.before.RemoteUploadOffset
        /\ IF lastBump.before.RemoteLocationOffset + lastBump.n < lastBump.totalCount
           THEN /\ cur.RemoteLocationOffset
                      = lastBump.before.RemoteLocationOffset + lastBump.n
                /\ cur.UploadIDs = lastBump.before.UploadIDs
           ELSE /\ cur.RemoteLocationOffset = 0
                /\ cur.UploadIDs = <<>>

C22_Witness ==
    /\ Bumped("BumpRemoteLocationOffset")
    /\ lastBump.before.UploadIDs # <<>>
    /\ lastBump.before.RemoteLocationOffset = 1
    /\ lastBump.n = 1
    /\ lastBump.totalCount = 2
    /\ lastBump.before.RemoteUploadOffset = 1
    /\ cur.UploadIDs = <<>>

(* C23: BumpRemoteUploadOffset(n, totalCount) adds n to                   *)
(* RemoteUploadOffset when the sum is below totalCount, and sets it to    *)
(* the exhausted marker -1 when the sum reaches or exceeds totalCount.    *)
C23_BumpRemoteUploadOffset ==
    Bumped("BumpRemoteUploadOffset") =>
        IF lastBump.before.RemoteUploadOffset + lastBump.n < lastBump.totalCount
        THEN cur.RemoteUploadOffset = lastBump.before.RemoteUploadOffset + lastBump.n
        ELSE cur.RemoteUploadOffset = -1

C23_Witness ==
    /\ Bumped("BumpRemoteUploadOffset")
    /\ lastBump.before.RemoteUploadOffset = 1
    /\ lastBump.n = 1
    /\ lastBump.totalCount = 2
    /\ cur.RemoteUploadOffset = -1

(* C24: a RemoteUploadOffset that holds the exhausted marker stays        *)
(* exhausted: no BumpRemoteUploadOffset call makes it non-negative again. *)
C24_ExhaustedStaysExhausted ==
    (Bumped("BumpRemoteUploadOffset") /\ lastBump.before.RemoteUploadOffset = -1)
        => cur.RemoteUploadOffset < 0

(* C25: whatever bumps were applied to the empty cursor, the two local    *)
(* offsets and RemoteLocationOffset are non-negative, and                 *)
(* RemoteUploadOffset is non-negative or exactly -1.                      *)
C25_OffsetsInRange ==
    /\ cur.LocalUploadOffset >= 0
    /\ cur.LocalLocationOffset >= 0
    /\ cur.RemoteLocationOffset >= 0
    /\ cur.RemoteUploadOffset >= -1

C25_Witness ==
    /\ Bumped("BumpRemoteUploadOffset")
    /\ cur.RemoteUploadOffset = -1
    /\ cur.LocalUploadOffset > 0
    /\ cur.LocalLocationOffset > 0
    /\ cur.RemoteLocationOffset > 0

----------------------------------------------------------------------------
(* The identifiers of a moniker list ascend strictly. *)
MonikersAscending(ms) ==
    \A i, j \in 1..Len(ms) :
        i < j => StringLess(ms[i].Identifier, ms[j].Identifier)

(* C27: the monikers handed to the upload finder and to the bulk lookup   *)
(* are those of the collected symbol names, each once, in ascending       *)
(* lexicographic order of symbol name, however often and in whatever      *)
(* order the visible uploads reported the names.                          *)
C27_MonikersSortedAndDistinct ==
    Requested =>
        \A j \in 1..Len(last.calls) :
            last.calls[j].op \in MonikerOps =>
                /\ MonikersAscending(last.calls[j].monikers)
                /\ {last.calls[j].monikers[i].Identifier :
                        i \in 1..Len(last.calls[j].monikers)} = CollectedSymbols

C27_Witness ==
    /\ Completed
    /\ last.kind = "prototypes"
    /\ symCase = 2
    /\ nVisible = 2
    /\ \E j \in 1..Len(last.calls) :
          /\ last.calls[j].op = "bulk"
          /\ Len(last.calls[j].monikers) = 2
          /\ last.calls[j].monikers[1].Identifier = SymA

(* The uploads that declare, and the uploads the reverse index gives for, *)
(* a moniker list.                                                         *)
DeclaringOf(ms) == getUploadsWithDefinitionsForMonikers(ms)

ReferencingOf(ms) ==
    GetUploadIDsWithReferences(ms, DeclaringOf(ms), maximumIndexesPerMonikerSearch, 0).ids

DeclaringThenReferencing(ms) == DeclaringOf(ms) \o ReferencingOf(ms)

(* The bulk lookup of a query of one of the kinds searched the declaring  *)
(* uploads, followed or not by those of the reverse index.                *)
SearchedAre(kinds, withReferencing) ==
    \A j \in 1..Len(last.calls) :
        (last.calls[j].op = "bulk" /\ last.kind \in kinds)
            => last.calls[j].uploadIDs
                  = IF withReferencing
                    THEN DeclaringThenReferencing(last.calls[j].monikers)
                    ELSE DeclaringOf(last.calls[j].monikers)

(* C28 as claimed: definitions, implementations and prototypes queries    *)
(* search exactly the uploads that declare a collected moniker's          *)
(* package; a references query searches those followed by the uploads of  *)
(* the reverse index.                                                      *)
C28_OnlyReferencesUseReverseIndex ==
    Requested =>
        /\ SearchedAre({"definitions", "implementations", "prototypes"}, FALSE)
        /\ SearchedAre({"references"}, TRUE)

(* C28, amended: definitions and prototypes queries search exactly the    *)
(* declaring uploads; references and implementations queries search the   *)
(* declaring uploads followed by the uploads of the reverse index.        *)
C28_UploadsSearchedPerKind ==
    Requested =>
        /\ SearchedAre({"definitions", "prototypes"}, FALSE)
        /\ SearchedAre({"references", "implementations"}, TRUE)

C28_Witness ==
    /\ Completed
    /\ last.kind = "implementations"
    /\ \E j \in 1..Len(last.calls) :
          /\ last.calls[j].op = "bulk"
          /\ last.calls[j].uploadIDs
                = <<1, DeclaringUpload, MaxVisible, ReferencingUpload>>

(* C29: every upload id the reverse index gave is hydrated, with success, *)
(* before the bulk lookup is given it; a page whose hydration fails       *)
(* issues no bulk lookup.                                                  *)
C29_HydratedBeforeBulk ==
    Requested =>
        \A j \in 1..Len(last.calls) :
            last.calls[j].op = "bulk" =>
                /\ \A k \in 1..(j - 1) :
                      last.calls[k].op = "referencing" =>
                          \E i \in (k + 1)..(j - 1) :
                              /\ last.calls[i].op = "hydrate"
                              /\ ~last.calls[i].failed
                              /\ Range(last.calls[k].uploadIDs)
                                    \subseteq Range(last.calls[i].uploadIDs)
                /\ \A i \in 1..(j - 1) :
                      last.calls[i].op = "hydrate" => ~last.calls[i].failed

C29_Witness ==
    /\ Completed
    /\ last.kind = "references"
    /\ \E i, j \in 1..Len(last.calls) :
          /\ i < j
          /\ last.calls[i].op = "hydrate"
          /\ last.calls[i].uploadIDs = <<MaxVisible, ReferencingUpload>>
          /\ last.calls[j].op = "bulk"
          /\ ReferencingUpload \in Range(last.calls[j].uploadIDs)

(* Visible upload u was consumed whole on a page before the last one. *)
ConsumedBefore(u) ==
    /\ u \in DOMAIN localCount
    /\ localCount[u] > 0
    /\ localCount[u] <= args.Limit
    /\ \E l \in seen : l.DumpID = u /\ l.Path = TargetPath

(* C30: a page that follows another in a request sequence resumes the     *)
(* local phase where the supplied cursor left off: it issues no           *)
(* positional lookup for a visible upload consumed on an earlier page.    *)
C30_LocalPhaseResumes ==
    (Requested /\ last.page > 1) =>
        \A j \in 1..Len(last.calls) :
            last.calls[j].op = "position" => ~ConsumedBefore(last.calls[j].upload)

(* The calls of the last page before call j. *)
CallsBefore(j) == SubSeq(last.calls, 1, j - 1)

(* Call j of the last page comes after a successful call of operation op. *)
Preceded(j, op) ==
    \E k \in 1..(j - 1) : last.calls[k].op = op /\ ~last.calls[k].failed

(* C31: a page issues at most one bulk moniker lookup, against the table  *)
(* of its query kind (prototypes search the definitions table), and only  *)
(* after the positional lookup of every visible upload and the discovery  *)
(* of the uploads to search have completed; no positional lookup and no   *)
(* upload discovery follows it.                                            *)
C31_OneBulkLookupAfterDiscovery ==
    Requested =>
        /\ Cardinality({j \in 1..Len(last.calls) : last.calls[j].op = "bulk"}) <= 1
        /\ \A j \in 1..Len(last.calls) :
              last.calls[j].op = "bulk" =>
                  /\ \/ last.kind = "definitions" /\ last.calls[j].table = "definitions"
                     \/ last.kind = "references" /\ last.calls[j].table = "references"
                     \/ last.kind = "implementations"
                            /\ last.calls[j].table = "implementations"
                     \/ last.kind = "prototypes" /\ last.calls[j].table = "definitions"
                  /\ PositionUploads(CallsBefore(j)) = VisibleIDs
                  /\ \A k \in 1..(j - 1) : ~last.calls[k].failed
                  /\ Preceded(j, "declaring")
                  /\ last.kind \in {"references", "implementations"}
                        => Preceded(j, "referencing") /\ Preceded(j, "hydrate")
                  /\ \A k \in (j + 1)..Len(last.calls) :
                        last.calls[k].op = "adjust"

C31_Witness ==
    /\ Completed
    /\ last.kind = "prototypes"
    /\ Len(VisibleIDs) = MaxVisible
    /\ \E j \in 1..Len(last.calls) :
          /\ last.calls[j].op = "bulk"
          /\ last.calls[j].table = "definitions"
          /\ last.calls[j].found > 0
          /\ Preceded(j, "declaring")

(* The location at position i of the last page occurs at no other position. *)
OccursOnce(i) ==
    \A j \in 1..Len(last.locations) : last.locations[j] = last.locations[i] => j = i

HeldLocations(u) ==
    getUploadLocations(
        ExtractLocationsFromPosition(u, TargetPath,
            ExtractLocationsFromPosition(u, TargetPath, 0, 0).totalCount, 0).locations,
        TRUE)

ReturnedSoFar == seen \cup Range(last.locations)

(* C33: for a references query, once the first page of a chain started    *)
(* with the zero cursor has returned the done cursor, every location a    *)
(* visible upload holds for the position has been returned; and an        *)
(* (upload, path) pair is in the skip map only when all of the upload's   *)
(* locations for the position have been returned.                         *)
C33_EveryLocalLocationReturned ==
    (Completed /\ last.kind = "references")
        => /\ (last.page = 1 /\ last.supplied = EmptyCursor
                    /\ last.cursor.Phase = "done")
                => \A i \in 1..Len(VisibleIDs) :
                      Range(HeldLocations(VisibleIDs[i])) \subseteq ReturnedSoFar
           /\ \A e \in last.skipPaths :
                 Range(HeldLocations(e[1])) \subseteq ReturnedSoFar

(* C34: add never collapses two monikers whose tuples differ: every       *)
(* moniker that was added, whatever its components contain, is present    *)
(* in monikers.                                                            *)
C34_AddKeepsDistinctTuples ==
    \A q \in Range(lastAdd) : q \in Range(monikers)

(* C35: a BumpLocalLocationOffset(n, totalCount) with n >= 1 strictly     *)
(* increases the pair (LocalUploadOffset, LocalLocationOffset) in         *)
(* lexicographic order; no bump decreases LocalUploadOffset; and after a  *)
(* BumpLocalLocationOffset the LocalLocationOffset is 0 or below          *)
(* totalCount.                                                             *)
C35_LocalPaginationProgress ==
    /\ ~Bumped("none") => cur.LocalUploadOffset >= lastBump.before.LocalUploadOffset
    /\ Bumped("BumpLocalLocationOffset") =>
          /\ cur.LocalLocationOffset = 0 \/ cur.LocalLocationOffset < lastBump.totalCount
          /\ lastBump.n >= 1 =>
                \/ cur.LocalUploadOffset > lastBump.before.LocalUploadOffset
                \/ /\ cur.LocalUploadOffset = lastBump.before.LocalUploadOffset
                   /\ cur.LocalLocationOffset > lastBump.before.LocalLocationOffset

C35_Witness ==
    /\ Bumped("BumpLocalLocationOffset")
    /\ lastBump.before.LocalLocationOffset = 1
    /\ lastBump.n = 1
    /\ lastBump.totalCount = 1
    /\ cur.LocalLocationOffset = 0
    /\ cur.LocalUploadOffset = lastBump.before.LocalUploadOffset + 1

(* The fields of the cursor other than those in the set fields are the    *)
(* same before and after the last bump.                                    *)
OnlyChanged(fields) ==
    \A i \in 1..Len(CursorFields) :
        CursorFields[i] \notin fields
            => cur[CursorFields[i]] = lastBump.before[CursorFields[i]]

(* C36: BumpLocalLocationOffset changes no field but the two local        *)
(* offsets, BumpRemoteUploadOffset none but RemoteUploadOffset, and       *)
(* BumpRemoteLocationOffset none but RemoteLocationOffset and UploadIDs.  *)
C36_BumpFrame ==
    /\ Bumped("BumpLocalLocationOffset")
          => OnlyChanged({"LocalUploadOffset", "LocalLocationOffset"})
    /\ Bumped("BumpRemoteUploadOffset") => OnlyChanged({"RemoteUploadOffset"})
    /\ Bumped("BumpRemoteLocationOffset")
          => OnlyChanged({"RemoteLocationOffset", "UploadIDs"})

C36_Witness ==
    /\ Bumped("BumpRemoteUploadOffset")
    /\ lastBump.before.UploadIDs # <<>>
    /\ lastBump.before.LocalUploadOffset > 0
    /\ lastBump.before.RemoteLocationOffset > 0
    /\ cur.RemoteUploadOffset = -1
    /\ cur.UploadIDs = lastBump.before.UploadIDs

(* The bulk lookup of the last page was given the monikers of the symbol  *)
(* names in names, and the page returned what it found, adjusted.         *)
BulkOver(names) ==
    \E j \in 1..Len(last.calls) :
        /\ last.calls[j].op = "bulk"
        /\ ~last.calls[j].failed
        /\ last.calls[j].monikers = symbolsToMonikers(SortStrings(MapKeys(names, "forward"))).monikers
        /\ last.locations
              = getUploadLocations(
                    GetMinimalBulkMonikerLocations(last.calls[j].table,
                        last.calls[j].uploadIDs, last.calls[j].skipPaths,
                        last.calls[j].monikers, 10000, 0),
                    FALSE)

(* C37: a completed definitions, implementations or prototypes page on    *)
(* which no visible upload yields a location has gone on to the remote    *)
(* phase with the non-reserved symbol names of all its visible uploads,   *)
(* and returns the adjusted results of the bulk lookup with the done      *)
(* cursor.                                                                 *)
C37_NoLocalResultGoesRemote ==
    (Completed /\ last.kind # "references" /\ FirstYielding = 0)
        => /\ BulkOver(CollectedSymbols)
           /\ last.cursor = exhaustedCursor

C37_Witness ==
    /\ Completed
    /\ last.kind = "definitions"
    /\ FirstYielding = 0
    /\ Len(VisibleIDs) = MaxVisible
    /\ SymB \in CollectedSymbols
    /\ last.locations # <<>>

(* Two runs have issued the same sub-lookups with the same arguments and  *)
(* returned the same locations, error and cursor.                          *)
SameOutcome(a, b) ==
    /\ a.calls = b.calls
    /\ a.locations = b.locations
    /\ a.err = b.err
    /\ a.cursor = b.cursor

(* C38: gatherLocations is deterministic: a second run with the same      *)
(* args, cursor and store responses, whatever the order in which its      *)
(* range over the collected symbol names visits them, issues the same     *)
(* upload-finder and bulk-lookup arguments and returns the same ordered   *)
(* locations and the same cursor as the page that was requested.          *)
C38_Deterministic ==
    Requested =>
        \A order \in IterationOrders :
            SameOutcome(last, gatherLocations(last.kind, args.Limit, last.supplied,
                                              FailedAt, order))

C38_Witness ==
    /\ Completed
    /\ MapKeys(CollectedSymbols, "forward") # MapKeys(CollectedSymbols, "backward")
    /\ \E j \in 1..Len(last.calls) :
          /\ last.calls[j].op = "bulk"
          /\ Len(last.calls[j].monikers) = 2
          /\ last.calls[j].found > 0

(* C39: every cursor chain terminates: a successful page of a references, *)
(* implementations or prototypes query, whatever cursor it was requested  *)
(* with, leaves the caller holding the done cursor, so a chain started    *)
(* with the zero cursor reaches done with its first successful page.      *)
C39_ChainReachesDone ==
    (Completed /\ last.kind # "definitions")
        => /\ last.cursor = exhaustedCursor
           /\ heldCursor = exhaustedCursor

C39_Witness ==
    /\ Completed
    /\ last.kind = "references"
    /\ last.page = 1
    /\ last.supplied = EmptyCursor
    /\ Len(VisibleIDs) = MaxVisible
    /\ AllLocalYield # <<>>
    /\ RemoteLocations # <<>>
    /\ heldCursor = exhaustedCursor
====
